---- MODULE Spec2Model ----
(***************************************************************************)
(* Model of wakapi's Prometheus metrics endpoint (routes/api/metrics.go):  *)
(* one scrape request handled by MetricsHandler.Get, with the user-scoped  *)
(* sequential phase (getUserMetrics), the admin phase (getAdminMetrics)    *)
(* and its per-user tasks on a pond worker pool guarded by a mutex, the    *)
(* final sort and the rendering of the response.                          *)
(***************************************************************************)
EXTENDS Integers, Sequences, FiniteSets, TLC

(***************************************************************************)
(* Bounds of the model.                                                    *)
(***************************************************************************)
\* Largest number of active users userSrvc.GetActive returns.
MaxUsers == 3
\* Largest number of logical cores (runtime.NumCPU) of the host.
MaxCores == 4

(***************************************************************************)
(* Constants of the program.                                               *)
(***************************************************************************)
MetricsPrefix == "wakatime"

DescHeartbeats == "Total number of tracked heartbeats."
DescAllTime == "Total seconds (all time)."
DescTotal == "Total seconds."
DescEditors == "Total seconds for each editor."
DescProjects == "Total seconds for each project."
DescLanguages == "Total seconds for each language."
DescOperatingSystems == "Total seconds for each operating system."
DescMachines == "Total seconds for each machine."
DescLabels == "Total seconds for each project label."
DescAdminTotalTime == "Total seconds (all users, all time)."
DescAdminTotalHeartbeats == "Total number of tracked heartbeats (all users, all time)"
DescAdminUserHeartbeats == "Total number of tracked heartbeats by user (all time)."
DescAdminUserTime == "Total tracked activity in seconds (all time) (active users only)."
DescAdminTotalUsers == "Total number of registered users."
DescAdminActiveUsers == "Number of active users."
DescJobQueueEnqueued == "Number of jobs currently enqueued"
DescJobQueueTotalFinished == "Total number of processed jobs"
DescMemAllocTotal == "Total number of bytes allocated for heap"
DescMemSysTotal == "Total number of bytes obtained from the OS"
DescPausedTotal == "Total nanoseconds stop-the-world pause time due to GC"
DescNumGCTotal == "Total number of GC cycles"
DescGoroutines == "Total number of running goroutines"
DescDatabaseSize == "Total database size in bytes"

ErrUnauthorized == "401 unauthorized"
ErrInternalServerError == "500 internal server error"

StatusOK == 200
StatusUnauthorized == 401
StatusInternalServerError == 500

ContentType == "text/plain; charset=utf-8"

(***************************************************************************)
(* Strings and their byte order.  TLC has no order on strings, so the      *)
(* order strings.Compare gives is tabulated for the strings of the model:  *)
(* the metric names the handler emits and the label values the inputs use. *)
(***************************************************************************)
MetricNames ==
  << "wakatime_admin_heartbeats_total",
     "wakatime_admin_seconds_total",
     "wakatime_admin_user_heartbeats_total",
     "wakatime_admin_user_time_seconds_total",
     "wakatime_admin_users_active_total",
     "wakatime_admin_users_total",
     "wakatime_cumulative_seconds_total",
     "wakatime_db_total_bytes",
     "wakatime_editor_seconds_total",
     "wakatime_goroutines_total",
     "wakatime_heartbeats_total",
     "wakatime_label_seconds_total",
     "wakatime_language_seconds_total",
     "wakatime_machine_seconds_total",
     "wakatime_mem_alloc_total",
     "wakatime_mem_sys_total",
     "wakatime_num_gc_total",
     "wakatime_operating_system_seconds_total",
     "wakatime_paused_total",
     "wakatime_project_seconds_total",
     "wakatime_queue_jobs_enqueued",
     "wakatime_queue_jobs_total_finished",
     "wakatime_seconds_total" >>

LabelValues ==
  << "", "default", "go", "host", "imports", "linux", "reports", "rust",
     "u1", "u2", "u3", "u4", "u5", "vim", "wakapi", "work" >>

RankIn(table, s) == CHOOSE i \in 1..Len(table) : table[i] = s

\* The names of the admin-scoped metrics (MetricsPrefix + "_admin_...").
AdminNames == { MetricNames[i] : i \in 1..6 }

AdminUserTimeName == MetricsPrefix \o "_admin_user_time_seconds_total"
AdminUserHeartbeatsName == MetricsPrefix \o "_admin_user_heartbeats_total"

(***************************************************************************)
(* The metric model (models/metrics): gauges and counters with labels.     *)
(***************************************************************************)
NoLabels == << >>

Label(k, v) == [Key |-> k, Value |-> v]

GaugeMetric(name, desc, value, labels) ==
  [Name |-> name, Desc |-> desc, Value |-> value, Labels |-> labels, Kind |-> "gauge"]

CounterMetric(name, desc, value, labels) ==
  [Name |-> name, Desc |-> desc, Value |-> value, Labels |-> labels, Kind |-> "counter"]

\* The value of a metric's first label, the empty string when it has none.
FirstLabelValue(m) == IF Len(m.Labels) = 0 THEN "" ELSE m.Labels[1].Value

\* Metrics.Less: by Name, then by the first label's value, ascending.
Less(a, b) ==
  \/ RankIn(MetricNames, a.Name) < RankIn(MetricNames, b.Name)
  \/ /\ a.Name = b.Name
     /\ RankIn(LabelValues, FirstLabelValue(a)) < RankIn(LabelValues, FirstLabelValue(b))

RECURSIVE InsertSorted(_, _)
InsertSorted(m, s) ==
  IF s = << >> THEN << m >>
  ELSE IF Less(m, Head(s)) THEN << m >> \o s
  ELSE << Head(s) >> \o InsertSorted(m, Tail(s))

\* The metrics left as they were appended.
Unsorted(s) == s

\* sort.Sort(metrics): the metrics in the order Less gives.
RECURSIVE SortMetrics(_)
SortMetrics(s) ==
  IF s = << >> THEN << >>
  ELSE InsertSorted(s[Len(s)], SortMetrics(SubSeq(s, 1, Len(s) - 1)))

\* A line of a response body that is a plain message.
TextLine(msg) == [T |-> "text", Name |-> "", Text |-> msg, Labels |-> NoLabels, Value |-> 0]

Line(t, m) ==
  [T |-> t, Name |-> m.Name,
   Text |-> IF t = "HELP" THEN m.Desc ELSE IF t = "TYPE" THEN m.Kind ELSE "",
   Labels |-> IF t = "sample" THEN m.Labels ELSE NoLabels,
   Value |-> IF t = "sample" THEN m.Value ELSE 0]

\* A renderer that repeats the declaration before every sample.
RECURSIVE PrintMetricsDeclaringEach(_)
PrintMetricsDeclaringEach(s) ==
  IF s = << >> THEN << >>
  ELSE PrintMetricsDeclaringEach(SubSeq(s, 1, Len(s) - 1))
         \o << Line("HELP", s[Len(s)]), Line("TYPE", s[Len(s)]), Line("sample", s[Len(s)]) >>

\* Metrics.Print: a HELP and a TYPE line when the Name changes, then the sample.
RECURSIVE PrintMetrics(_)
PrintMetrics(s) ==
  IF s = << >> THEN << >>
  ELSE LET n == Len(s)
           m == s[n]
           before == PrintMetrics(SubSeq(s, 1, n - 1))
           header == IF n > 1 /\ s[n - 1].Name = m.Name
                     THEN << >>
                     ELSE << Line("HELP", m), Line("TYPE", m) >>
       IN before \o header \o << Line("sample", m) >>

(***************************************************************************)
(* Inputs: what the collaborators can answer.                              *)
(***************************************************************************)
AllUserIds == << "u1", "u2", "u3", "u4", "u5" >>

UserIds == { AllUserIds[i] : i \in 1..MaxUsers }

\* The requests: no principal, a plain user, an admin.
Principals ==
  { [present |-> FALSE, ID |-> "", IsAdmin |-> FALSE],
    [present |-> TRUE, ID |-> "u1", IsAdmin |-> FALSE],
    [present |-> TRUE, ID |-> "u1", IsAdmin |-> TRUE] }

Item(k, total) == [Key |-> k, Total |-> total]

\* Summaries summarySrvc.Aliased can return for "today".
Summaries ==
  { [Total |-> 0, Projects |-> << >>, Languages |-> << >>, Editors |-> << >>,
     OperatingSystems |-> << >>, Machines |-> << >>, Labels |-> << >>],
    [Total |-> 90,
     Projects |-> << Item("wakapi", 90) >>,
     Languages |-> << Item("rust", 30), Item("go", 60) >>,
     Editors |-> << Item("vim", 90) >>,
     OperatingSystems |-> << Item("linux", 90) >>,
     Machines |-> << Item("host", 90) >>,
     Labels |-> << Item("work", 90) >>] }

\* Lists conf.GetQueueMetrics can return.
QueueLists ==
  { << >>,
    << [Queue |-> "reports", EnqueuedJobs |-> 1, FinishedJobs |-> 7],
       [Queue |-> "default", EnqueuedJobs |-> 0, FinishedJobs |-> 3] >> }

\* The active users userSrvc.GetActive can return: the first n users, in
\* ascending or in descending order of their IDs.
ActiveUserLists ==
  { [k \in 1..n |-> AllUserIds[k]] : n \in 0..MaxUsers }
    \cup { [k \in 1..n |-> AllUserIds[n + 1 - k]] : n \in 0..MaxUsers }

\* The all-time total (seconds) of a user's summary.
TotalTimeOf(u) == 100 * RankIn(AllUserIds, u)

\* The heartbeat count of a user.
HeartbeatsOf(u) == 10 * RankIn(AllUserIds, u)

\* utils.HalfCPUs: half of the logical cores, at least 1.
HalfCPUs(cores) == IF cores \div 2 < 1 THEN 1 ELSE cores \div 2

(***************************************************************************)
(* State.                                                                  *)
(***************************************************************************)
VARIABLES
  pc,            \* where the handler goroutine is
  reqUser,       \* middlewares.GetPrincipal(r)
  status,        \* the status written, 0 while none is
  header,        \* the content-type header set, "" while none is
  body,          \* the lines written to the response
  metrics,       \* Get's metrics
  adminMetrics,  \* getAdminMetrics' metrics, shared with the tasks
  calls,         \* the collaborator calls of the handler goroutine, in order
  failed,        \* the calls among them that returned an error
  summaryToday,  \* the summary getUserMetrics got for "today"
  queues,        \* the list conf.GetQueueMetrics returned
  adminCalled,   \* whether getAdminMetrics was invoked
  activeUsers,   \* the users userSrvc.GetActive returned
  poolSize,      \* the pool's maxWorkers, 0 while there is no pool
  i,             \* the submitting loop's index (from 1)
  task,          \* each submitted closure's position
  taskUser,      \* the user each task asked the summary of, "" before it did
  taskResult,    \* "ok" or "err" once a task's summary lookup returned
  lookups,       \* how many summary lookups each task made
  lock,          \* the task holding lock, 0 when free
  sorts,         \* how many times sort.Sort ran
  exposeMetrics, \* config.Security.ExposeMetrics
  registered,    \* whether RegisterRoutes has run
  mountPath      \* where the handler's router is mounted, "" while nowhere

vars ==
  << pc, reqUser, status, header, body, metrics, adminMetrics, calls, failed,
     summaryToday, queues, adminCalled, activeUsers, poolSize, i, task, taskUser,
     taskResult, lookups, lock, sorts, exposeMetrics, registered, mountPath >>

routeVars == << exposeMetrics, registered, mountPath >>
responseVars == << status, header, body >>
userVars == << summaryToday, queues >>
poolVars == << poolSize, i, task, taskUser, taskResult, lookups, lock >>

Tasks == 1..MaxUsers

NoSummary ==
  [Total |-> 0, Projects |-> << >>, Languages |-> << >>, Editors |-> << >>,
   OperatingSystems |-> << >>, Machines |-> << >>, Labels |-> << >>]

Init ==
  /\ pc = "start"
  /\ reqUser \in Principals
  /\ status = 0
  /\ header = ""
  /\ body = << >>
  /\ metrics = << >>
  /\ adminMetrics = << >>
  /\ calls = << >>
  /\ failed = {}
  /\ summaryToday = NoSummary
  /\ queues = << >>
  /\ adminCalled = FALSE
  /\ activeUsers = << >>
  /\ poolSize = 0
  /\ i = 1
  /\ task = [t \in Tasks |-> "idle"]
  /\ taskUser = [t \in Tasks |-> ""]
  /\ taskResult = [t \in Tasks |-> "none"]
  /\ lookups = [t \in Tasks |-> 0]
  /\ lock = 0
  /\ sorts = 0
  /\ exposeMetrics \in BOOLEAN
  /\ registered = FALSE
  /\ mountPath = ""

(***************************************************************************)
(* MetricsHandler.Get, up to the user-scoped phase.                        *)
(***************************************************************************)
Name(suffix) == MetricsPrefix \o suffix

\* One gauge per item of a breakdown, labelled name=<key>.
BreakdownMetrics(suffix, desc, items) ==
  [k \in 1..Len(items) |->
     GaugeMetric(Name(suffix), desc, items[k].Total, << Label("name", items[k].Key) >>)]

\* The queue loop with the name of the first metric pasted into the second.
RECURSIVE QueueMetricsSameName(_)
QueueMetricsSameName(qs) ==
  IF qs = << >> THEN << >>
  ELSE << GaugeMetric(Name("_queue_jobs_enqueued"), DescJobQueueEnqueued,
                      Head(qs).EnqueuedJobs, << Label("queue", Head(qs).Queue) >>),
          CounterMetric(Name("_queue_jobs_enqueued"), DescJobQueueTotalFinished,
                        Head(qs).FinishedJobs, << Label("queue", Head(qs).Queue) >>) >>
       \o QueueMetricsSameName(Tail(qs))

\* The two metrics of each job queue, labelled queue=<name>.
RECURSIVE QueueMetrics(_)
QueueMetrics(qs) ==
  IF qs = << >> THEN << >>
  ELSE << GaugeMetric(Name("_queue_jobs_enqueued"), DescJobQueueEnqueued,
                      Head(qs).EnqueuedJobs, << Label("queue", Head(qs).Queue) >>),
          CounterMetric(Name("_queue_jobs_total_finished"), DescJobQueueTotalFinished,
                        Head(qs).FinishedJobs, << Label("queue", Head(qs).Queue) >>) >>
       \o QueueMetrics(Tail(qs))

\* The runtime snapshot (runtime.ReadMemStats, runtime.NumGoroutine).
RuntimeSnapshot ==
  [Goroutines |-> 8, Alloc |-> 1024, Sys |-> 4096, PauseTotalNs |-> 50, NumGC |-> 2]

\* The metrics getUserMetrics returns when none of its summary and count
\* calls failed.
UserMetrics(allTime, today, heartbeatCount, dbSize, qs, rt) ==
  << GaugeMetric(Name("_cumulative_seconds_total"), DescAllTime, allTime, NoLabels),
     GaugeMetric(Name("_seconds_total"), DescTotal, today.Total, NoLabels),
     GaugeMetric(Name("_heartbeats_total"), DescHeartbeats, heartbeatCount, NoLabels) >>
  \o BreakdownMetrics("_project_seconds_total", DescProjects, today.Projects)
  \o BreakdownMetrics("_language_seconds_total", DescLanguages, today.Languages)
  \o BreakdownMetrics("_editor_seconds_total", DescEditors, today.Editors)
  \o BreakdownMetrics("_operating_system_seconds_total", DescOperatingSystems,
                      today.OperatingSystems)
  \o BreakdownMetrics("_machine_seconds_total", DescMachines, today.Machines)
  \o BreakdownMetrics("_label_seconds_total", DescLabels, today.Labels)
  \o << GaugeMetric(Name("_goroutines_total"), DescGoroutines, rt.Goroutines, NoLabels),
        GaugeMetric(Name("_mem_alloc_total"), DescMemAllocTotal, rt.Alloc, NoLabels),
        GaugeMetric(Name("_mem_sys_total"), DescMemSysTotal, rt.Sys, NoLabels),
        CounterMetric(Name("_paused_total"), DescPausedTotal, rt.PauseTotalNs, NoLabels),
        CounterMetric(Name("_num_gc_total"), DescNumGCTotal, rt.NumGC, NoLabels),
        GaugeMetric(Name("_db_total_bytes"), DescDatabaseSize, dbSize, NoLabels) >>
  \o QueueMetrics(qs)

\* getUserMetrics going on after a failed heartbeat count.
UserPhaseErrorDropsCount(okAllTime, okToday, okCount, okDb) ==
  IF ~okAllTime THEN 1
  ELSE IF ~okToday THEN 2
  ELSE 0

\* Which call of getUserMetrics makes it return an error: the first failing
\* one among the two summary retrievals and the heartbeat count (1, 2, 3), 0
\* when none does.  A failing GetDatabaseSize is logged as a warning only.
UserPhaseError(okAllTime, okToday, okCount, okDb) ==
  IF ~okAllTime THEN 1
  ELSE IF ~okToday THEN 2
  ELSE IF ~okCount THEN 3
  ELSE 0

UserCalls ==
  << "summarySrvc.Aliased(allTime)", "summarySrvc.Aliased(today)",
     "heartbeatSrvc.CountByUser", "metricsRepo.GetDatabaseSize", "conf.GetQueueMetrics" >>

\* Get calling getAdminMetrics for every user.
AlwaysAdminMetrics == "getAdminMetrics"

\* Get, line 110: only an admin's request goes on to getAdminMetrics.
AfterUserMetrics == IF reqUser.IsAdmin THEN "getAdminMetrics" ELSE "sort"

\* Get's answer to an error of getUserMetrics or getAdminMetrics.
RespondInternalError ==
  /\ status' = StatusInternalServerError
  /\ body' = << TextLine(ErrInternalServerError) >>
  /\ header' = header
  /\ pc' = "done"

(***************************************************************************)
(* RegisterRoutes.                                                         *)
(***************************************************************************)
\* The default of securityConfig.ExposeMetrics.
ExposeMetricsDefault == FALSE

MetricsPath == "/metrics"

\* The handler's Get is routed to: its router is mounted.
Mounted == mountPath = MetricsPath

\* RegisterRoutes without the check of the flag.
RegisterRoutesUngated ==
  /\ ~registered
  /\ registered' = TRUE
  /\ mountPath' = MetricsPath
  /\ UNCHANGED << exposeMetrics, pc, reqUser, responseVars, metrics, adminMetrics, calls,
                  failed, userVars, adminCalled, activeUsers, poolVars, sorts >>

\* Lines 75-87: nothing is mounted unless config.Security.ExposeMetrics is set.
RegisterRoutes ==
  /\ ~registered
  /\ registered' = TRUE
  /\ mountPath' = IF ~exposeMetrics THEN mountPath ELSE MetricsPath
  /\ UNCHANGED << exposeMetrics, pc, reqUser, responseVars, metrics, adminMetrics, calls,
                  failed, userVars, adminCalled, activeUsers, poolVars, sorts >>

\* Get without the return after the 401.
AuthenticateFallsThrough ==
  /\ Mounted
  /\ pc = "start"
  /\ IF ~reqUser.present
     THEN /\ status' = StatusUnauthorized
          /\ body' = << TextLine(ErrUnauthorized) >>
     ELSE UNCHANGED << status, body >>
  /\ pc' = "getUserMetrics"
  /\ UNCHANGED << routeVars, reqUser, header, metrics, adminMetrics, calls, failed, userVars,
                  adminCalled, activeUsers, poolVars, sorts >>

\* Get, lines 89-95: the principal of the request.
Authenticate ==
  /\ Mounted
  /\ pc = "start"
  /\ IF ~reqUser.present
     THEN /\ status' = StatusUnauthorized
          /\ body' = << TextLine(ErrUnauthorized) >>
          /\ pc' = "done"
     ELSE /\ pc' = "getUserMetrics"
          /\ UNCHANGED << status, body >>
  /\ UNCHANGED << routeVars, reqUser, header, metrics, adminMetrics, calls, failed, userVars,
                  adminCalled, activeUsers, poolVars, sorts >>

\* Get, lines 99-108, with getUserMetrics: the calls in sequence, the first
\* failing summary or count call ending the request.
GetUserMetrics ==
  /\ pc = "getUserMetrics"
  /\ \E okAllTime, okToday, okCount, okDb \in BOOLEAN, today \in Summaries, qs \in QueueLists :
       LET e == UserPhaseError(okAllTime, okToday, okCount, okDb)
           oks == << okAllTime, okToday, okCount, okDb, TRUE >>
           made == IF e # 0 THEN e ELSE Len(UserCalls)
           dbSize == IF okDb THEN 2048 ELSE 0
       IN /\ calls' = SubSeq(UserCalls, 1, made)
          /\ failed' = { UserCalls[k] : k \in { n \in 1..made : ~oks[n] } }
          /\ IF e # 0
             THEN /\ RespondInternalError
                  /\ UNCHANGED << metrics, userVars >>
             ELSE /\ summaryToday' = today
                  /\ queues' = qs
                  /\ metrics' = UserMetrics(500, today, HeartbeatsOf(reqUser.ID), dbSize,
                                            qs, RuntimeSnapshot)
                  /\ pc' = AfterUserMetrics
                  /\ UNCHANGED responseVars
  /\ UNCHANGED << routeVars, reqUser, adminMetrics, adminCalled, activeUsers, poolVars, sorts >>

(***************************************************************************)
(* getAdminMetrics: the sequential part.                                   *)
(***************************************************************************)
AdminCalls ==
  << "keyValueSrvc.GetString", "userSrvc.Count", "heartbeatSrvc.Count",
     "userSrvc.GetActive", "heartbeatSrvc.CountByUsers" >>

\* getAdminMetrics going on after a failed GetActive.
AdminPhaseErrorDropsActive(okKV, okUsers, okBeats, okActive, okByUsers) ==
  IF ~okByUsers THEN 5 ELSE 0

\* Which call of getAdminMetrics makes it return an error: GetActive (4) or
\* CountByUsers (5), 0 when neither fails.  The errors of GetString, of
\* userSrvc.Count and of heartbeatSrvc.Count are dropped.
AdminPhaseError(okKV, okUsers, okBeats, okActive, okByUsers) ==
  IF ~okActive THEN 4
  ELSE IF ~okByUsers THEN 5
  ELSE 0

\* heartbeatSrvc.CountByUsers: one UserCount for each of the users.
CountByUsers(users) ==
  [k \in 1..Len(users) |-> [User |-> users[k], Count |-> HeartbeatsOf(users[k])]]

\* Lines 329-355: the four instance-wide gauges.
AdminScalarMetrics(totalSeconds, totalHeartbeats, totalUsers, users) ==
  << GaugeMetric(Name("_admin_seconds_total"), DescAdminTotalTime, totalSeconds, NoLabels),
     GaugeMetric(Name("_admin_heartbeats_total"), DescAdminTotalHeartbeats,
                 totalHeartbeats, NoLabels),
     GaugeMetric(Name("_admin_users_total"), DescAdminTotalUsers, totalUsers, NoLabels),
     GaugeMetric(Name("_admin_users_active_total"), DescAdminActiveUsers, Len(users),
                 NoLabels) >>

\* The loop over userCounts stopping one short.
UserHeartbeatMetricsSkipsLast(userCounts) ==
  [k \in 1..(Len(userCounts) - 1) |->
     GaugeMetric(AdminUserHeartbeatsName, DescAdminUserHeartbeats, userCounts[k].Count,
                 << Label("user", userCounts[k].User) >>)]

\* Lines 365-372: one gauge per UserCount, labelled user=<id>.
UserHeartbeatMetrics(userCounts) ==
  [k \in 1..Len(userCounts) |->
     GaugeMetric(AdminUserHeartbeatsName, DescAdminUserHeartbeats, userCounts[k].Count,
                 << Label("user", userCounts[k].User) >>)]

\* Get, lines 110-115, with getAdminMetrics up to the creation of the pool
\* and of the lock (lines 301-381).
GetAdminMetrics ==
  /\ pc = "getAdminMetrics"
  /\ adminCalled' = TRUE
  /\ \E okKV, okUsers, okBeats, okActive, okByUsers \in BOOLEAN,
        users \in ActiveUserLists, cores \in 1..MaxCores :
       LET e == AdminPhaseError(okKV, okUsers, okBeats, okActive, okByUsers)
           totalSeconds == IF okKV THEN 3600 ELSE 0
           totalUsers == IF okUsers THEN 5 ELSE 0
           totalHeartbeats == IF okBeats THEN 70 ELSE 0
           oks == << okKV, okUsers, okBeats, okActive, okByUsers >>
           made == IF e # 0 THEN e ELSE Len(AdminCalls)
       IN IF ~reqUser.IsAdmin
          THEN \* lines 307-309: the defensive check
               /\ RespondInternalError
               /\ UNCHANGED << calls, failed, activeUsers, adminMetrics, poolVars >>
          ELSE IF e # 0
          THEN /\ calls' = calls \o SubSeq(AdminCalls, 1, made)
               /\ failed' = failed \cup { AdminCalls[k] : k \in { n \in 1..made : ~oks[n] } }
               /\ RespondInternalError
               /\ activeUsers' = IF okActive THEN users ELSE activeUsers
               /\ UNCHANGED << adminMetrics, poolVars >>
          ELSE /\ calls' = calls \o SubSeq(AdminCalls, 1, made)
               /\ failed' = failed \cup { AdminCalls[k] : k \in { n \in 1..made : ~oks[n] } }
               /\ activeUsers' = IF okActive THEN users ELSE << >>
               /\ adminMetrics' =
                    AdminScalarMetrics(totalSeconds, totalHeartbeats, totalUsers,
                                       activeUsers')
                      \o UserHeartbeatMetrics(IF okByUsers THEN CountByUsers(activeUsers')
                                              ELSE << >>)
               /\ poolSize' = HalfCPUs(cores)
               /\ lock' = 0
               /\ i' = 1
               /\ pc' = IF Len(activeUsers') = 0 THEN "StopAndWait" ELSE "submit"
               /\ UNCHANGED << responseVars, task, taskUser, taskResult, lookups >>
  /\ UNCHANGED << routeVars, reqUser, metrics, userVars, sorts >>

\* One loop variable for all iterations: a task reads the index the loop is
\* at when the task runs (the last index once the loop has ended).
SharedLoopIndex(t) == IF i > Len(activeUsers) THEN Len(activeUsers) ELSE i

\* The closure's i: the loop variable is per iteration, so a task reads the
\* index it was submitted with.
ClosureIndex(t) == t

(***************************************************************************)
(* getAdminMetrics: the per-user tasks on the worker pool.                 *)
(* pond.New(maxWorkers, 0) has no task buffer: Submit hands the task to a  *)
(* worker, starting one while fewer than maxWorkers run, and blocks while  *)
(* every worker is busy.                                                   *)
(***************************************************************************)
N == Len(activeUsers)

\* The tasks a worker is running.
InFlight == { t \in Tasks : task[t] \in {"lookup", "locking", "critical", "appended"} }

\* A pool that starts a worker for every task.
UnboundedWorkers == TRUE

\* Submit can hand a task over: a worker is idle or can be started.
WorkerAvailable == Cardinality(InFlight) < poolSize

\* A lock that excludes nobody.
LockAlwaysGranted == TRUE

\* lock.Lock() can return: nobody holds the lock.
LockFree == lock = 0

\* A pool that is stopped without waiting for its tasks.
StopWithoutWaiting == TRUE

\* StopAndWait can return: every submitted task has completed.
AllTasksDone == \A t \in 1..N : task[t] = "done"

\* Lines 383-384: the loop submits the closure of its current index.
Submit ==
  /\ pc = "submit"
  /\ i <= N
  /\ WorkerAvailable
  /\ task' = [task EXCEPT ![i] = "lookup"]
  /\ i' = i + 1
  /\ pc' = IF i + 1 > N THEN "StopAndWait" ELSE "submit"
  /\ UNCHANGED << routeVars, reqUser, responseVars, metrics, adminMetrics, calls, failed, userVars,
                  adminCalled, activeUsers, poolSize, taskUser, taskResult, lookups, lock,
                  sorts >>

\* A task that asks once more after a failed lookup.
TaskLookupRetries(t) ==
  /\ task[t] = "lookup"
  /\ \E ok \in BOOLEAN :
       /\ taskResult' = [taskResult EXCEPT ![t] = IF ok THEN "ok" ELSE "err"]
       /\ task' = [task EXCEPT ![t] = IF ok THEN "locking"
                                      ELSE IF lookups[t] = 0 THEN "lookup" ELSE "done"]
  /\ taskUser' = [taskUser EXCEPT ![t] = activeUsers[ClosureIndex(t)]]
  /\ lookups' = [lookups EXCEPT ![t] = @ + 1]
  /\ UNCHANGED << routeVars, pc, reqUser, responseVars, metrics, adminMetrics, calls,
                  failed, userVars, adminCalled, activeUsers, poolSize, i, lock, sorts >>

\* A task that goes on to append after a failed lookup.
TaskLookupIgnoresError(t) ==
  /\ task[t] = "lookup"
  /\ \E ok \in BOOLEAN :
       /\ taskResult' = [taskResult EXCEPT ![t] = IF ok THEN "ok" ELSE "err"]
       /\ task' = [task EXCEPT ![t] = "locking"]
  /\ taskUser' = [taskUser EXCEPT ![t] = activeUsers[ClosureIndex(t)]]
  /\ lookups' = [lookups EXCEPT ![t] = @ + 1]
  /\ UNCHANGED << routeVars, pc, reqUser, responseVars, metrics, adminMetrics, calls, failed,
                  userVars, adminCalled, activeUsers, poolSize, i, lock, sorts >>

\* Lines 385-389: the task's summary lookup returns; on an error the task
\* logs it and returns.
TaskLookup(t) ==
  /\ task[t] = "lookup"
  /\ \E ok \in BOOLEAN :
       /\ taskResult' = [taskResult EXCEPT ![t] = IF ok THEN "ok" ELSE "err"]
       /\ task' = [task EXCEPT ![t] = IF ok THEN "locking" ELSE "done"]
  /\ taskUser' = [taskUser EXCEPT ![t] = activeUsers[ClosureIndex(t)]]
  /\ lookups' = [lookups EXCEPT ![t] = @ + 1]
  /\ UNCHANGED << routeVars, pc, reqUser, responseVars, metrics, adminMetrics, calls, failed,
                  userVars, adminCalled, activeUsers, poolSize, i, lock, sorts >>

\* Line 390: lock.Lock().
TaskLock(t) ==
  /\ task[t] = "locking"
  /\ LockFree
  /\ lock' = t
  /\ task' = [task EXCEPT ![t] = "critical"]
  /\ UNCHANGED << routeVars, pc, reqUser, responseVars, metrics, adminMetrics, calls, failed,
                  userVars, adminCalled, activeUsers, poolSize, i, taskUser, taskResult,
                  lookups, sorts >>

\* Lines 392-397: the task appends its user's gauge.
TaskAppend(t) ==
  /\ task[t] = "critical"
  /\ adminMetrics' =
       Append(adminMetrics,
              GaugeMetric(AdminUserTimeName, DescAdminUserTime, TotalTimeOf(taskUser[t]),
                          << Label("user", activeUsers[ClosureIndex(t)]) >>))
  /\ task' = [task EXCEPT ![t] = "appended"]
  /\ UNCHANGED << routeVars, pc, reqUser, responseVars, metrics, calls, failed, userVars,
                  adminCalled, activeUsers, poolSize, i, taskUser, taskResult, lookups,
                  lock, sorts >>

\* A closure that returns without releasing the lock.
TaskReturnsLocked(t) ==
  /\ task[t] = "appended"
  /\ task' = [task EXCEPT ![t] = "done"]
  /\ UNCHANGED << routeVars, pc, reqUser, responseVars, metrics, adminMetrics, calls,
                  failed, userVars, adminCalled, activeUsers, poolSize, i, taskUser,
                  taskResult, lookups, lock, sorts >>

\* Line 391: the deferred lock.Unlock(), as the closure returns.
TaskUnlock(t) ==
  /\ task[t] = "appended"
  /\ lock' = IF lock = t THEN 0 ELSE lock
  /\ task' = [task EXCEPT ![t] = "done"]
  /\ UNCHANGED << routeVars, pc, reqUser, responseVars, metrics, adminMetrics, calls, failed,
                  userVars, adminCalled, activeUsers, poolSize, i, taskUser, taskResult,
                  lookups, sorts >>

\* Lines 401-404: wp.StopAndWait() returns and getAdminMetrics returns its
\* metrics.
StopAndWait ==
  /\ pc = "StopAndWait"
  /\ AllTasksDone
  /\ pc' = "merge"
  /\ UNCHANGED << routeVars, reqUser, responseVars, metrics, adminMetrics, calls, failed, userVars,
                  adminCalled, activeUsers, poolVars, sorts >>

(***************************************************************************)
(* Get: merge, sort, render.                                               *)
(***************************************************************************)
\* Lines 117-119: the admin metrics are appended to the user metrics.
Merge ==
  /\ pc = "merge"
  /\ metrics' = metrics \o adminMetrics
  /\ pc' = "sort"
  /\ UNCHANGED << routeVars, reqUser, responseVars, adminMetrics, calls, failed, userVars,
                  adminCalled, activeUsers, poolVars, sorts >>

\* Line 123: sort.Sort(metrics).
Sort ==
  /\ pc = "sort"
  /\ metrics' = SortMetrics(metrics)
  /\ sorts' = sorts + 1
  /\ pc' = "write"
  /\ UNCHANGED << routeVars, reqUser, responseVars, adminMetrics, calls, failed, userVars,
                  adminCalled, activeUsers, poolVars >>

\* Lines 125-126: the header and the rendered body; the status is 200.
Write ==
  /\ pc = "write"
  /\ header' = ContentType
  /\ body' = PrintMetrics(metrics)
  /\ status' = StatusOK
  /\ pc' = "done"
  /\ UNCHANGED << routeVars, reqUser, metrics, adminMetrics, calls, failed, userVars, adminCalled,
                  activeUsers, poolVars, sorts >>

Next ==
  \/ RegisterRoutes
  \/ Authenticate
  \/ GetUserMetrics
  \/ GetAdminMetrics
  \/ Submit
  \/ \E t \in Tasks : TaskLookup(t)
  \/ \E t \in Tasks : TaskLock(t)
  \/ \E t \in Tasks : TaskAppend(t)
  \/ \E t \in Tasks : TaskUnlock(t)
  \/ StopAndWait
  \/ Merge
  \/ Sort
  \/ Write

Spec == Init /\ [][Next]_vars

\* The steps that call a collaborator or wait: for a worker (Submit), for the
\* lock (TaskLock) or for the pool to drain (StopAndWait).
Progress ==
  \/ RegisterRoutes
  \/ Authenticate
  \/ GetUserMetrics
  \/ GetAdminMetrics
  \/ Submit
  \/ \E t \in Tasks : TaskLookup(t) \/ TaskLock(t) \/ TaskAppend(t) \/ TaskUnlock(t)
  \/ StopAndWait
  \/ Merge

\* Lines 123-126: sort.Sort and the write are straight-line code of Get that
\* waits for nothing; the handler at either statement moves past it.
Render ==
  \/ pc = "sort" /\ pc' = "write"
  \/ pc = "write" /\ pc' = "done"

\* Every collaborator call returns and the Go scheduler runs a goroutine that
\* can take a step: the request does not stop while a step of it is possible.
FairSpec == Spec /\ WF_vars(Progress) /\ WF_pc(Render)

(***************************************************************************)
(* Properties.                                                             *)
(***************************************************************************)
\* The positions of the metrics of a name in Get's metrics.
Rows(name) == { k \in DOMAIN metrics : metrics[k].Name = name }

\* The rows of a name whose first label has the value v.
RowsOf(name, v) == { k \in Rows(name) : FirstLabelValue(metrics[k]) = v }

\* The tasks whose summary lookup returned an error.
FailedTasks == { t \in 1..N : taskResult[t] = "err" }

\* The body is the plain 500 message and nothing else was written.
InternalErrorResponse ==
  /\ status = StatusInternalServerError
  /\ body = << TextLine(ErrInternalServerError) >>
  /\ header = ""

SampleLines == { k \in DOMAIN body : body[k].T = "sample" }

\* C1: once the admin phase has reached its per-user tasks, the request ends
\* with status 200 whatever lookups fail, and the metrics hold exactly N-K
\* '_admin_user_time_seconds_total' rows: one for each active user whose
\* lookup succeeded, none for a user whose lookup failed.
C1_FailureIsolation ==
  (poolSize # 0 /\ pc = "done") =>
    /\ status = StatusOK
    /\ Cardinality(Rows(AdminUserTimeName)) = N - Cardinality(FailedTasks)
    /\ \A t \in 1..N :
         Cardinality(RowsOf(AdminUserTimeName, activeUsers[t]))
           = IF taskResult[t] = "ok" THEN 1 ELSE 0

C1_Witness ==
  /\ pc = "done"
  /\ status = StatusOK
  /\ N = 3
  /\ Cardinality(FailedTasks) = 2
  /\ taskResult[2] = "ok"

\* C2 as stated: a failure of any of the four calls of the user-scoped phase,
\* the database-size query included, ends the request with the 500 response
\* and no metric line.
C2_Original ==
  (pc = "done" /\ failed \cap { UserCalls[k] : k \in 1..4 } # {}) =>
    InternalErrorResponse

\* C2, amended: a failure of the all-time summary, of today's summary or of the
\* heartbeat count ends the request with status 500, the body '500 internal
\* server error' and no metric line; a failure of the database-size query does
\* not: getUserMetrics goes on to the queue metrics and returns its metrics,
\* the database gauge among them with the size the failed call returned.
C2_UserPhaseAbort ==
  /\ (failed \cap { UserCalls[k] : k \in 1..3 } # {}) =>
       /\ pc = "done"
       /\ InternalErrorResponse
       /\ metrics = << >>
       /\ SampleLines = {}
  /\ (UserCalls[4] \in failed /\ failed \cap { UserCalls[k] : k \in 1..3 } = {}) =>
       /\ Len(calls) >= 5 /\ calls[5] = UserCalls[5]
       /\ Cardinality(Rows(Name("_db_total_bytes"))) = 1
       /\ \A k \in Rows(Name("_db_total_bytes")) : metrics[k].Value = 0
       /\ (pc = "done" /\ ~reqUser.IsAdmin) => status = StatusOK

C2_Witness ==
  /\ pc = "done"
  /\ failed = { UserCalls[3] }
  /\ calls = SubSeq(UserCalls, 1, 3)
  /\ status = StatusInternalServerError

\* C3 as stated: a failure of the key-value lookup, of the user count, of the
\* heartbeat count or of the active-user retrieval ends the request with the
\* 500 response and no admin metric.
C3_Original ==
  (pc = "done" /\ failed \cap { AdminCalls[k] : k \in 1..4 } # {}) =>
    InternalErrorResponse

\* C3, amended: a failure of the active-user retrieval or of the batched
\* heartbeat count makes getAdminMetrics return the error: the request ends
\* with status 500 and no metric is emitted.  A failure of the key-value
\* lookup, of the user count or of the total heartbeat count is dropped: the
\* admin phase goes on, the cached total time is emitted as 0 when its lookup
\* failed, and the request ends with status 200.
C3_AdminPhaseAbort ==
  /\ (failed \cap { AdminCalls[4], AdminCalls[5] } # {}) =>
       /\ pc = "done"
       /\ InternalErrorResponse
       /\ SampleLines = {}
       /\ poolSize = 0
  /\ (adminCalled /\ reqUser.IsAdmin /\ pc = "done"
        /\ failed \cap { AdminCalls[4], AdminCalls[5] } = {}) =>
       /\ status = StatusOK
       /\ \A n \in AdminNames \ { AdminUserTimeName, AdminUserHeartbeatsName } :
            Cardinality(Rows(n)) = 1
       /\ AdminCalls[1] \in failed =>
            \A k \in Rows(Name("_admin_seconds_total")) : metrics[k].Value = 0

C3_Witness ==
  /\ pc = "done"
  /\ AdminCalls[4] \in failed
  /\ calls = UserCalls \o SubSeq(AdminCalls, 1, 4)
  /\ status = StatusInternalServerError

\* C4: a request without a principal gets status 401 and the body
\* '401 unauthorized'; no collaborator is called for it, getAdminMetrics is
\* not invoked, no pool is created and no task is started.
C4_Unauthorized ==
  ~reqUser.present =>
    /\ pc = "done" => (status = StatusUnauthorized /\ body = << TextLine(ErrUnauthorized) >>)
    /\ pc \in {"start", "done"}
    /\ calls = << >>
    /\ ~adminCalled
    /\ poolSize = 0
    /\ \A t \in Tasks : task[t] = "idle" /\ lookups[t] = 0
    /\ metrics = << >>

C4_Witness ==
  /\ ~reqUser.present
  /\ pc = "done"
  /\ status = StatusUnauthorized

\* The handler is past wp.StopAndWait.
PastBarrier == pc \in {"merge", "sort", "write", "done"}

AdminUserTimeRows == { k \in DOMAIN adminMetrics : adminMetrics[k].Name = AdminUserTimeName }

\* C5: StopAndWait returns only when every active user's task was submitted
\* and has completed: past it no task is running or holds the lock, and the
\* sorted and rendered metrics hold every row the tasks appended; while a
\* task is running or still to be submitted nothing was sorted or written.
C5_Barrier ==
  /\ (poolSize # 0 /\ PastBarrier) =>
       /\ i = N + 1
       /\ \A t \in 1..N : task[t] = "done"
       /\ InFlight = {}
       /\ lock = 0
       /\ pc # "merge" =>
            Cardinality(Rows(AdminUserTimeName)) = Cardinality(AdminUserTimeRows)
  /\ (InFlight # {} \/ (poolSize # 0 /\ i <= N)) =>
       /\ pc \in {"submit", "StopAndWait"}
       /\ sorts = 0
       /\ status = 0
       /\ body = << >>

C5_Witness ==
  /\ pc = "write"
  /\ N = 3
  /\ poolSize = 2
  /\ \A t \in 1..N : taskResult[t] = "ok"

\* C6: at most one task is between lock.Lock and the deferred Unlock, the
\* task that appends (or has appended) is the holder of the lock, and the
\* handler reads the metrics (merge, sort, render) only when no task is in
\* flight.
C6_MutualExclusion ==
  /\ Cardinality({ t \in Tasks : task[t] \in {"critical", "appended"} }) <= 1
  /\ \A t \in Tasks : task[t] \in {"critical", "appended"} => lock = t
  /\ lock # 0 => task[lock] \in {"critical", "appended"}
  /\ pc \in {"merge", "sort", "write"} => InFlight = {}

C6_Witness ==
  \E t, u \in Tasks :
    /\ task[t] = "appended"
    /\ lock = t
    /\ task[u] = "locking"

\* C7: the tasks running on workers, and so the summary lookups in flight,
\* never outnumber the pool size, which is max(1, cores/2); and past the
\* barrier every one of the N tasks has made its lookup, also when N exceeds
\* the pool size.
C7_BoundedParallelism ==
  /\ Cardinality({ t \in Tasks : task[t] = "lookup" }) <= poolSize
  /\ Cardinality(InFlight) <= poolSize
  /\ poolSize # 0 =>
       \E c \in 1..MaxCores :
         /\ poolSize >= 1
         /\ poolSize >= c \div 2
         /\ poolSize = 1 \/ poolSize = c \div 2
  /\ (poolSize # 0 /\ PastBarrier) => \A t \in 1..N : lookups[t] = 1

C7_Witness ==
  /\ pc = "done"
  /\ status = StatusOK
  /\ N > poolSize
  /\ poolSize = 2
  /\ \A t \in 1..N : lookups[t] = 1

\* The names of the user-scoped metrics with no label.
UserScalarNames ==
  { Name("_cumulative_seconds_total"), Name("_seconds_total"), Name("_heartbeats_total"),
    Name("_goroutines_total"), Name("_mem_alloc_total"), Name("_mem_sys_total"),
    Name("_paused_total"), Name("_num_gc_total"), Name("_db_total_bytes") }

\* The breakdowns of a summary, each with the name of its metric.
BreakdownsOf(today) ==
  << [name |-> Name("_project_seconds_total"), items |-> today.Projects],
     [name |-> Name("_language_seconds_total"), items |-> today.Languages],
     [name |-> Name("_editor_seconds_total"), items |-> today.Editors],
     [name |-> Name("_operating_system_seconds_total"), items |-> today.OperatingSystems],
     [name |-> Name("_machine_seconds_total"), items |-> today.Machines],
     [name |-> Name("_label_seconds_total"), items |-> today.Labels] >>

QueueNames == { Name("_queue_jobs_enqueued"), Name("_queue_jobs_total_finished") }

\* C8: for an authenticated user who is no admin, getAdminMetrics is never
\* invoked (no admin collaborator call, no pool, no task), and the metrics of
\* the 200 response hold no '_admin_' name: only the user-scoped names, each
\* scalar once and each breakdown once per key of today's summary.
C8_NonAdmin ==
  (reqUser.present /\ ~reqUser.IsAdmin) =>
    /\ ~adminCalled
    /\ \A k \in DOMAIN calls : \A a \in DOMAIN AdminCalls : calls[k] # AdminCalls[a]
    /\ poolSize = 0
    /\ \A t \in Tasks : task[t] = "idle" /\ lookups[t] = 0
    /\ (pc = "done" /\ status = StatusOK) =>
         /\ \A k \in DOMAIN metrics : metrics[k].Name \notin AdminNames
         /\ \A k \in SampleLines : body[k].Name \notin AdminNames
         /\ \A k \in DOMAIN metrics :
              metrics[k].Name \in UserScalarNames \cup QueueNames
                \cup { BreakdownsOf(summaryToday)[d].name : d \in 1..6 }
         /\ \A n \in UserScalarNames : Cardinality(Rows(n)) = 1
         /\ \A d \in 1..6 :
              LET b == BreakdownsOf(summaryToday)[d]
              IN /\ Cardinality(Rows(b.name)) = Len(b.items)
                 /\ \A j \in DOMAIN b.items :
                      Cardinality(RowsOf(b.name, b.items[j].Key)) = 1

C8_Witness ==
  /\ reqUser.present
  /\ ~reqUser.IsAdmin
  /\ pc = "done"
  /\ status = StatusOK
  /\ Len(summaryToday.Languages) = 2

\* C9: the metrics of an admin's 200 response hold exactly N
\* '_admin_user_heartbeats_total' rows, one for each active user, however
\* many of the per-user total-time tasks failed.
C9_UserHeartbeatRows ==
  (reqUser.IsAdmin /\ pc = "done" /\ status = StatusOK) =>
    /\ Cardinality(Rows(AdminUserHeartbeatsName)) = N
    /\ \A t \in 1..N : Cardinality(RowsOf(AdminUserHeartbeatsName, activeUsers[t])) = 1

C9_Witness ==
  /\ reqUser.IsAdmin
  /\ pc = "done"
  /\ status = StatusOK
  /\ N = 3
  /\ FailedTasks = 1..3

\* C10: sort.Sort runs at most once and only past the barrier, on the merged
\* metrics; in a 200 response it ran exactly once, the body has one sample
\* line per metric, and of two sample lines the later one's (Name, first
\* label value) is never less than the earlier one's.
C10_Sorted ==
  /\ sorts <= 1
  /\ sorts = 1 => (pc \in {"write", "done"} /\ InFlight = {})
  /\ (pc = "done" /\ status = StatusOK) =>
       /\ sorts = 1
       /\ Cardinality(SampleLines) = Len(metrics)
       /\ reqUser.IsAdmin => Len(metrics) >= Len(adminMetrics) + Cardinality(UserScalarNames)
       /\ \A a, b \in SampleLines : a < b => ~Less(body[b], body[a])

C10_Witness ==
  /\ pc = "done"
  /\ status = StatusOK
  /\ N = 3
  /\ FailedTasks = {}
  /\ \E a, b \in DOMAIN adminMetrics : a < b /\ Less(adminMetrics[b], adminMetrics[a])
  /\ \E a, b \in AdminUserTimeRows :
       a < b /\ Less(adminMetrics[b], adminMetrics[a])

\* The metrics the collaborators' answers determine, in the order of the
\* code and with the per-user total-time rows in the order of activeUsers.
AnsweredMetrics ==
  LET dbSize == IF UserCalls[4] \in failed THEN 0 ELSE 2048
      succeeded == SelectSeq([t \in 1..N |-> t], LAMBDA t : taskResult[t] = "ok")
      timeRows == [k \in 1..Len(succeeded) |->
                     GaugeMetric(AdminUserTimeName, DescAdminUserTime,
                                 TotalTimeOf(activeUsers[succeeded[k]]),
                                 << Label("user", activeUsers[succeeded[k]]) >>)]
  IN UserMetrics(500, summaryToday, HeartbeatsOf(reqUser.ID), dbSize, queues,
                 RuntimeSnapshot)
       \o (IF reqUser.IsAdmin THEN SubSeq(adminMetrics, 1, 4 + N) \o timeRows ELSE << >>)

\* C11: the body of a 200 response is the rendering of the sorted metrics that
\* the collaborators' answers determine, whatever the order in which the
\* tasks completed and appended; no two metrics tie in the sort order, so the
\* sort leaves nothing of the append order.
C11_Deterministic ==
  (pc = "done" /\ status = StatusOK) =>
    /\ body = PrintMetrics(SortMetrics(AnsweredMetrics))
    /\ \A a, b \in DOMAIN metrics :
         a # b => (Less(metrics[a], metrics[b]) \/ Less(metrics[b], metrics[a]))

C11_Witness ==
  /\ pc = "done"
  /\ status = StatusOK
  /\ N = 3
  /\ \E a, b \in AdminUserTimeRows :
       /\ a < b
       /\ RankIn(AllUserIds, FirstLabelValue(adminMetrics[a])) = 3
       /\ RankIn(AllUserIds, FirstLabelValue(adminMetrics[b])) = 1
  /\ activeUsers[1] = "u1"

LinesOf(t, name) == { k \in DOMAIN body : body[k].T = t /\ body[k].Name = name }

\* C12: in the body of a 200 response every name of the sorted metrics has
\* exactly one HELP line, directly followed by its one TYPE line, both before
\* the sample lines of the name, and one sample line for each metric of the
\* name.
C12_DeclarationGrouping ==
  (pc = "done" /\ status = StatusOK) =>
    \A m \in DOMAIN metrics :
      LET name == metrics[m].Name
      IN /\ Cardinality(LinesOf("HELP", name)) = 1
         /\ Cardinality(LinesOf("TYPE", name)) = 1
         /\ \A h \in LinesOf("HELP", name) :
              /\ body[h].Text = metrics[m].Desc
              /\ h + 1 \in LinesOf("TYPE", name)
              /\ body[h + 1].Text = metrics[m].Kind
              /\ \A k \in LinesOf("sample", name) : h + 1 < k
         /\ Cardinality(LinesOf("sample", name)) = Cardinality(Rows(name))

C12_Witness ==
  /\ pc = "done"
  /\ status = StatusOK
  /\ Cardinality(LinesOf("sample", Name("_language_seconds_total"))) = 2
  /\ Cardinality(LinesOf("HELP", Name("_language_seconds_total"))) = 1
  /\ \E k \in SampleLines : body[k].Labels = << Label("name", "go") >>
  /\ \E k \in SampleLines : body[k].Labels = << Label("name", "rust") >>

\* C13: in the metrics of the handler and of getAdminMetrics, at every step,
\* two metrics of one name have the same kind and the same description.
C13_OneKindPerName ==
  /\ \A a, b \in DOMAIN metrics :
       metrics[a].Name = metrics[b].Name =>
         (metrics[a].Kind = metrics[b].Kind /\ metrics[a].Desc = metrics[b].Desc)
  /\ \A a, b \in DOMAIN adminMetrics :
       adminMetrics[a].Name = adminMetrics[b].Name =>
         (adminMetrics[a].Kind = adminMetrics[b].Kind
            /\ adminMetrics[a].Desc = adminMetrics[b].Desc)

C13_Witness ==
  /\ pc = "done"
  /\ status = StatusOK
  /\ Len(queues) = 2
  /\ Cardinality(Rows(AdminUserTimeName)) = 2
  /\ Cardinality(Rows(Name("_language_seconds_total"))) = 2
  /\ Cardinality(Rows(Name("_queue_jobs_total_finished"))) = 2

\* C14: with ExposeMetrics false, as by default, RegisterRoutes mounts nothing
\* and the handler never runs: no principal is looked at, no collaborator is
\* called, nothing is collected or written.  The router is mounted, at
\* '/metrics', only when the flag is true, and Get runs only when it is
\* mounted.
C14_RouteGating ==
  /\ ~exposeMetrics =>
       /\ ~Mounted /\ mountPath = ""
       /\ pc = "start"
       /\ calls = << >>
       /\ metrics = << >> /\ adminMetrics = << >>
       /\ ~adminCalled /\ poolSize = 0
       /\ \A t \in Tasks : task[t] = "idle"
       /\ status = 0 /\ body = << >>
  /\ exposeMetrics = ExposeMetricsDefault => ~Mounted
  /\ mountPath # "" => (exposeMetrics /\ registered /\ mountPath = "/metrics")
  /\ (registered /\ exposeMetrics) => Mounted
  /\ pc # "start" => Mounted

C14_Witness ==
  /\ ~exposeMetrics
  /\ registered
  /\ reqUser.present

\* How many times the handler goroutine has made a call.
CallCount(name) == Cardinality({ k \in DOMAIN calls : calls[k] = name })

Submitted == { t \in Tasks : task[t] # "idle" }

\* C15: within one admin request CountByUsers is called at most once, and
\* exactly once, without an error, before the first task is submitted; the
\* tasks submitted are those of the indices below the loop's, past the barrier
\* exactly the N of the active users; a task makes one summary lookup and none
\* after an error; and when GetActive or CountByUsers failed no task was
\* submitted.
C15_CallCounts ==
  /\ CallCount(AdminCalls[5]) <= 1
  /\ CallCount(AdminCalls[4]) <= 1
  /\ Submitted # {} =>
       /\ CallCount(AdminCalls[5]) = 1
       /\ failed \cap { AdminCalls[4], AdminCalls[5] } = {}
       /\ Cardinality(Rows(AdminUserHeartbeatsName)) \in { 0, N }
       /\ Cardinality({ k \in DOMAIN adminMetrics :
                          adminMetrics[k].Name = AdminUserHeartbeatsName }) = N
  /\ poolSize # 0 => Submitted = 1..(i - 1)
  /\ (poolSize # 0 /\ PastBarrier) => Submitted = 1..N
  /\ \A t \in Tasks :
       /\ lookups[t] <= 1
       /\ task[t] \in {"idle", "lookup"} => lookups[t] = 0
       /\ task[t] \in {"locking", "critical", "appended", "done"} => lookups[t] = 1
       /\ taskResult[t] = "err" => (task[t] = "done" /\ lookups[t] = 1)
  /\ failed \cap { AdminCalls[4], AdminCalls[5] } # {} =>
       (Submitted = {} /\ poolSize = 0 /\ \A t \in Tasks : lookups[t] = 0)

C15_Witness ==
  /\ pc = "done"
  /\ status = StatusOK
  /\ N = 3
  /\ Submitted = 1..3
  /\ taskResult[1] = "err"
  /\ taskResult[3] = "ok"
  /\ CallCount(AdminCalls[5]) = 1

\* The row is the per-user total time of user u, labelled with u.
TimeRowMatches(row, u) ==
  /\ row.Name = AdminUserTimeName
  /\ row.Labels = << Label("user", u) >>
  /\ row.Value = TotalTimeOf(u)

C17_Termination ==
  /\ [](\A t \in Tasks : taskResult[t] = "err" => lock # t)
  /\ Mounted ~> (pc = "done" /\ status # 0)
  /\ (poolSize # 0) ~>
       (pc = "done" /\ status = StatusOK /\ lock = 0 /\ \A t \in 1..N : task[t] = "done")

C17_Witness ==
  /\ pc = "done"
  /\ status = StatusOK
  /\ poolSize = 1
  /\ N = 3
  /\ taskResult = [t \in Tasks |-> IF t = 2 THEN "err" ELSE "ok"]
  /\ lock = 0

====
